---- MODULE Spec2Model ----
(***************************************************************************)
(* Seismic damage-assessment and serviceability pipeline of main.ipynb.    *)
(*                                                                         *)
(* Numbers are fixed point:                                                *)
(*   probabilities and uniform draws   in 1/1000                           *)
(*   PGA, medians, betas               in 1/100 g                          *)
(*   operational levels                in 1/10                             *)
(*   PGV in cm/s, RR in 1e-9 repairs/m, lengths in ft and m, mu in 1/1000  *)
(*   diameters in mm, areas in mm^2                                        *)
(*   serviceability ratios             in 1/1000                           *)
(***************************************************************************)
EXTENDS Integers, Sequences, FiniteSets, TLC

VARIABLES
    pc,                   \* position of the notebook run
    init_level,           \* wn: tank -> init_level (the solver's input)
    original_tank_levels, \* tank -> level captured at line 247
    tanks_pga,            \* tank -> PGA (partial: tanks missing from the CSV)
    pumps_pga,            \* pump -> PGA (partial)
    base_speed,           \* wn: pump -> base speed (the solver's input)
    loop_i,               \* index of the running for loop
    pga_value,            \* global left by the tank / pump loops
    random_number,        \* local of determine_*_damage_state, NoDraw outside a call
    damage_state,         \* global left by the tank / pump loops
    tank_damage_states,   \* history: the damage state sampled for each tank
    pump_damage_states,   \* history: the damage state sampled for each pump
    pump_performance,     \* pump -> operational level
    pipe_name_list,       \* wn: the pipes in network order
    pipelines_pgv,        \* pipe -> PGV
    num_damages,          \* pipe -> Poisson damage count
    leaks_breaks,         \* pipe -> <<leaks, breaks>>
    orifice_areas,        \* pipe -> 100 * orifice area
    np_uniform,           \* the np.random.uniform() value of the running iteration
    pipe_failed,          \* history: pipe -> TRUE / FALSE once its failure draw is made
    n_splits,             \* history: pipe -> number of split_pipe calls on it
    leak_area,            \* wn: pipe -> 100 * area of the leak on node Leak_<pipe>
    n_applied,            \* history: tank / pump -> number of damage applications
    pipe_visits,          \* history: pipe -> iterations of the leak loop on it
    sim_runs,             \* history: number of run_sim calls
    results,              \* simulation results, NoResults before run_sim
    serviceability,       \* node / pump -> serviceability
    first_run             \* history: the damage outcomes of an earlier run, NoRun if none

vars == <<pc, init_level, original_tank_levels, tanks_pga, pumps_pga, base_speed,
          loop_i, pga_value, random_number, damage_state,
          tank_damage_states, pump_damage_states, pump_performance,
          pipe_name_list, pipelines_pgv, num_damages, leaks_breaks,
          orifice_areas, np_uniform, pipe_failed, n_splits, leak_area,
          n_applied, pipe_visits, sim_runs, results, serviceability, first_run>>

---------------------------------------------------------------------------
(* Bounds and input grids *)

\* largest Poisson damage count drawn for a pipe
MaxDamages == 20

\* values of random.uniform(0, 1) and np.random.uniform(), in 1/1000
UGrid == {0, 100, 300, 450, 700, 999}
NpUGrid == {0, 100, 500, 999}

\* PGV values the attenuation model returns, in cm/s
PGVValues == {0, 50}

\* tank initial levels of the network file
LevelMaps == {[T1 |-> 0, T2 |-> 50], [T1 |-> 50, T2 |-> 30]}

\* PGA per tank and per pump; an asset missing from the CSV has no entry
TankPGAMaps == {<<>>, [T1 |-> 150], [T1 |-> 60]}
PumpPGAMaps == {<<>>, [P1 |-> 60]}

\* PGV per pipe: at most one pipe of the set S is shaken
PGVMaps(S) == {m \in [S -> PGVValues] : Cardinality({p \in S : m[p] # 0}) <= 1}

tank_name_list == <<"T1", "T2">>
pump_name_list == <<"P1">>
junction_name_list == <<"J1", "J2">>
Tanks == {"T1", "T2"}
Pumps == {"P1"}

\* pipe orders of the network file
PipeOrders == {<<0, 1>>, <<1, 0>>, <<1, 2>>}

NoDraw == -1
NoResults == [head |-> <<>>, demand |-> <<>>]
Unset == "unset"
NoRun == [done |-> FALSE, tank_damage_states |-> <<>>, pump_damage_states |-> <<>>,
          pipe_failed |-> <<>>, orifice_areas |-> <<>>]

---------------------------------------------------------------------------
(* Helpers *)

Range(s) == {s[i] : i \in DOMAIN s}

\* dict.get(key, default)
Get(m, k, d) == IF k \in DOMAIN m THEN m[k] ELSE d

\* d[k] = v on a dict
Put(m, k, v) == [x \in DOMAIN m \cup {k} |-> IF x = k THEN v ELSE m[x]]

EmptyDict == <<>>

\* int(): truncation toward zero of n / d, d > 0
TruncDiv(n, d) == IF n >= 0 THEN n \div d ELSE -((-n) \div d)

Min(a, b) == IF a <= b THEN a ELSE b

---------------------------------------------------------------------------
(* Fragility model: cells 6 and 7 *)

\* increasing severity, the insertion order of the params dicts
States == <<"Minor", "Moderate", "Extensive", "Complete">>

tanks_damage_state_params ==
    [Minor |-> <<18, 50>>, Moderate |-> <<55, 50>>,
     Extensive |-> <<115, 60>>, Complete |-> <<150, 60>>]

pump_damage_state_params ==
    [Minor |-> <<15, 75>>, Moderate |-> <<36, 65>>,
     Extensive |-> <<77, 65>>, Complete |-> <<150, 80>>]

tank_operational_levels ==
    [None |-> 10, Minor |-> 9, Moderate |-> 8, Extensive |-> 6, Complete |-> 0]

pump_operational_levels ==
    [None |-> 10, Minor |-> 9, Moderate |-> 8, Extensive |-> 6, Complete |-> 0]

\* scipy.stats.lognorm.cdf(x, s=beta, scale=median) at the tabulated points
LognormCdfTable ==
    <<20, 18, 50>> :> 583 @@ <<20, 55, 50>> :> 22 @@
    <<20, 115, 60>> :> 2 @@ <<20, 150, 60>> :> 0 @@
    <<20, 15, 75>> :> 649 @@ <<20, 36, 65>> :> 183 @@
    <<20, 77, 65>> :> 19 @@ <<20, 150, 80>> :> 6 @@
    <<60, 18, 50>> :> 992 @@ <<60, 55, 50>> :> 569 @@
    <<60, 115, 60>> :> 139 @@ <<60, 150, 60>> :> 63 @@
    <<60, 15, 75>> :> 968 @@ <<60, 36, 65>> :> 784 @@
    <<60, 77, 65>> :> 351 @@ <<60, 150, 80>> :> 126 @@
    <<150, 18, 50>> :> 1000 @@ <<150, 55, 50>> :> 978 @@
    <<150, 115, 60>> :> 671 @@ <<150, 150, 60>> :> 500 @@
    <<150, 15, 75>> :> 999 @@ <<150, 36, 65>> :> 986 @@
    <<150, 77, 65>> :> 848 @@ <<150, 150, 80>> :> 500

\* the lognormal CDF is 0 at and below 0
LognormCdf(x, median, beta) ==
    IF x <= 0 THEN 0 ELSE LognormCdfTable[<<x, median, beta>>]

\* exceedance_probability = 1 - lognorm.cdf(pga, s=beta, scale=median)
ExceedanceProbability(params, state, pga) ==
    1000 - LognormCdf(pga, params[state][1], params[state][2])

\* first loop: probabilities[state] = exceedance - previous_probability
Probabilities(params, pga) ==
    [i \in 1..Len(States) |->
        ExceedanceProbability(params, States[i], pga)
        - (IF i = 1 THEN 0 ELSE ExceedanceProbability(params, States[i - 1], pga))]

\* faulty variant: strict comparison
WalkMutStrict(u, cum) == u < cum

\* if random_number <= cumulative_probability
WalkHit(u, cum) == u <= cum

\* second loop, from state i with cumulative_probability cum
RECURSIVE WalkFrom(_, _, _, _)
WalkFrom(probs, u, i, cum) ==
    IF i > Len(States) THEN "None"
    ELSE LET c == cum + probs[i]
         IN  IF WalkHit(u, c) THEN States[i] ELSE WalkFrom(probs, u, i + 1, c)

determine_tank_damage_state(pga, u) ==
    WalkFrom(Probabilities(tanks_damage_state_params, pga), u, 1, 0)

determine_pump_damage_state(pga, u) ==
    WalkFrom(Probabilities(pump_damage_state_params, pga), u, 1, 0)

---------------------------------------------------------------------------
(* Pipe damage: cell 8 *)

\* pipe attributes of the network file: length in ft, diameter in mm
LengthFt == (0 :> 10000) @@ (1 :> 50000) @@ (2 :> 30000)
DiameterMm == (0 :> 300) @@ (1 :> 150) @@ (2 :> 200)

\* ascending order of a set of pipe ids
RECURSIVE SortedSeq(_)
SortedSeq(S) ==
    IF S = {} THEN <<>>
    ELSE LET m == CHOOSE x \in S : \A y \in S : x <= y
         IN  <<m>> \o SortedSeq(S \ {m})

\* the index of pipelines_coordinates.csv, and so of pipelines_pgv and RR
RRIndex == SortedSeq(Range(pipe_name_list))

\* earthquake.repair_rate_model(pgv, C=0.5): RR = C * 0.000241 * PGV
RR(pipe) == 5 * 241 * pipelines_pgv[pipe]

\* pd.Series(wn.query_link_attribute('length', ...)) * 0.3048, in network order
link_length ==
    [i \in 1..Len(pipe_name_list) |-> (LengthFt[pipe_name_list[i]] * 3048) \div 10000]

\* Series.iloc[k]: position k counted from 0; IndexError outside the series
IlocInRange(s, k) == k >= 0 /\ k < Len(s)
Iloc(s, k) == s[k + 1]

\* repair_rate * link_length.iloc[int(pipe)], in 1/1000
Mu(pipe) == ((RR(pipe) \div 1000) * Iloc(link_length, pipe)) \div 1000

\* exp(x) for x >= 0 in 1/1000, by its power series
RECURSIVE ExpTerm(_, _)
ExpTerm(x, k) == IF k = 0 THEN 1000 ELSE (ExpTerm(x, k - 1) * x) \div (1000 * k)
RECURSIVE ExpSum(_, _)
ExpSum(x, k) == IF k = 0 THEN 1000 ELSE ExpSum(x, k - 1) + ExpTerm(x, k)
Exp(x) == ExpSum(x, 12)

\* pf = 1 - np.exp(-RR[int(pipe)] * link_length.iloc[int(pipe)])
Pf(pipe) == 1000 - (1000000 \div Exp(Mu(pipe)))

\* poisson.rvs(mu): the counts it can return
PoissonSupport(mu) == IF mu = 0 THEN {0} ELSE 0..MaxDamages

\* faulty variant: rounding to nearest instead of truncation
LeaksBreaksMutRound(damage) ==
    <<(85 * damage + 50) \div 100, (15 * damage + 50) \div 100>>

\* (int(0.85 * damage), int(0.15 * damage))
LeaksBreaks(damage) == <<TruncDiv(85 * damage, 100), TruncDiv(15 * damage, 100)>>

\* diameters and areas: A = pi * (d / 2) ** 2
Area(pipe) == (3142 * DiameterMm[pipe] * DiameterMm[pipe]) \div 4000

\* faulty variant: no cap at the bore
OrificeAreaMutNoCap(leaks, breaks, area) == (3 * leaks + 20 * breaks) * area

\* min((0.03 * leaks + 0.2 * breaks) * areas[pipe], areas[pipe]), times 100
OrificeArea(leaks, breaks, area) ==
    Min((3 * leaks + 20 * breaks) * area, 100 * area)

\* faulty variant: failure decided by the sampled damage count
PipeFailsMutDamaged(pipe, u) == Get(num_damages, pipe, 0) > 0

\* np.random.uniform() < pf
PipeFails(pipe, u) == u < Pf(pipe)

\* the pipe handed to wntr.morph.split_pipe(wn, str(pipe), ...)
SplitPipeName(pipe) == pipe

---------------------------------------------------------------------------
(* Simulation and serviceability: cell 9 *)

TankElevation == [t \in Tanks |-> 100]

LeakNodeName == (0 :> "Leak_0") @@ (1 :> "Leak_1") @@ (2 :> "Leak_2")

\* wn.node_name_list: junctions, tanks, then the leak nodes the splits added
NodeNameList ==
    junction_name_list \o tank_name_list
        \o [i \in 1..Len(SortedSeq(DOMAIN leak_area)) |->
                LeakNodeName[SortedSeq(DOMAIN leak_area)[i]]]

\* wn.junction_name_list: a split inserts a junction
IsJunction(node) ==
    node \in Range(junction_name_list) \cup {LeakNodeName[p] : p \in DOMAIN leak_area}

\* wntr.metrics.expected_demand(wn)[node].mean()
ExpectedDemand(node) == IF node = "J1" THEN 10 ELSE 0

\* results of run_sim: mean head per tank, mean demand per junction
SimResults ==
    {[head |-> [t \in Tanks |-> IF t = "T1" THEN r[1] ELSE r[2]],
      demand |-> [j \in Range(junction_name_list) |-> IF j = "J1" THEN r[3] ELSE 0]]
        : r \in {<<130, 145, 10>>, <<100, 160, 4>>, <<170, 100, 12>>}}

\* numpy float64 division: x / 0 is inf or nan, and no exception
Divide(n, d) ==
    IF d = 0 THEN [kind |-> IF n = 0 THEN "nan" ELSE "inf", value |-> 0]
    ELSE [kind |-> "finite", value |-> TruncDiv(n * 1000, d)]

---------------------------------------------------------------------------
(* The notebook run *)

\* the cells in notebook order: 6 (tanks), 7 (pumps), 8 (pipes), 9 (simulation)
CellOrder ==
    [capture |-> "tanks", tanks |-> "pumps", pumps |-> "poisson",
     poisson |-> "derive", derive |-> "leaks", leaks |-> "sim",
     sim |-> "serviceability", serviceability |-> "pump_serviceability",
     pump_serviceability |-> "done"]

\* faulty variant: the simulation cell run before the pipe cell
NextCellMutSkipPipes(c) == IF c = "pumps" THEN "sim" ELSE CellOrder[c]

\* faulty variant: the leak loop run again
NextCellMutRerunLeaks(c) == IF c = "leaks" THEN "leaks" ELSE CellOrder[c]

\* the statement that runs after the block c
NextCell(c) == CellOrder[c]

Init ==
    /\ pc = "capture"
    /\ init_level \in LevelMaps
    /\ original_tank_levels = EmptyDict
    /\ tanks_pga \in TankPGAMaps
    /\ pumps_pga \in PumpPGAMaps
    /\ base_speed = [p \in Pumps |-> 10]
    /\ loop_i = 1
    /\ pga_value = 0
    /\ random_number = NoDraw
    /\ damage_state = Unset
    /\ tank_damage_states = EmptyDict
    /\ pump_damage_states = EmptyDict
    /\ pump_performance = EmptyDict
    /\ pipe_name_list \in PipeOrders
    /\ pipelines_pgv \in PGVMaps(Range(pipe_name_list))
    /\ num_damages = EmptyDict
    /\ leaks_breaks = EmptyDict
    /\ orifice_areas = EmptyDict
    /\ np_uniform = NoDraw
    /\ pipe_failed = EmptyDict
    /\ n_splits = [p \in Range(pipe_name_list) |-> 0]
    /\ leak_area = EmptyDict
    /\ n_applied = [a \in Tanks \cup Pumps |-> 0]
    /\ pipe_visits = [p \in Range(pipe_name_list) |-> 0]
    /\ sim_runs = 0
    /\ results = NoResults
    /\ serviceability = EmptyDict
    /\ first_run = NoRun

TankVars == <<init_level, original_tank_levels, tanks_pga, tank_damage_states>>
PumpVars == <<pumps_pga, base_speed, pump_damage_states, pump_performance>>
PipeInputs == <<pipe_name_list, pipelines_pgv>>
PipeVars == <<num_damages, leaks_breaks, orifice_areas, np_uniform, pipe_failed,
              n_splits, leak_area, pipe_visits>>
SimVars == <<sim_runs, results, serviceability>>

\* original_tank_levels = {tank_name: wn.get_node(tank_name).init_level ...}
CaptureOriginalLevels ==
    /\ pc = "capture"
    /\ original_tank_levels' = [t \in Range(tank_name_list) |-> init_level[t]]
    /\ pc' = NextCell(pc)
    /\ loop_i' = 1
    /\ UNCHANGED <<first_run, init_level, tanks_pga, tank_damage_states, PumpVars, PipeInputs,
                   PipeVars, SimVars, pga_value, random_number, damage_state,
                   n_applied>>

\* faulty variant: the level scaled twice
ScaleLevelMutTwice(level, op) == (((level * op) \div 10) * op) \div 10

\* tank.init_level * operational_level
ScaleLevel(level, op) == (level * op) \div 10

\* tank loop, up to random.uniform(0, 1) inside determine_tank_damage_state
TankDraw ==
    /\ pc = "tanks"
    /\ random_number = NoDraw
    /\ pga_value' = Get(tanks_pga, tank_name_list[loop_i], 0)
    /\ \E u \in UGrid : random_number' = u
    /\ UNCHANGED <<first_run, pc, loop_i, damage_state, TankVars, PumpVars, PipeInputs,
                   PipeVars, SimVars, n_applied>>

\* tank loop, from the draw to the end of the iteration
TankApply ==
    /\ pc = "tanks"
    /\ random_number # NoDraw
    /\ LET tank_name == tank_name_list[loop_i]
           state == determine_tank_damage_state(pga_value, random_number)
           level == Get(tank_operational_levels, state, 10)
       IN  /\ damage_state' = state
           /\ tank_damage_states' = Put(tank_damage_states, tank_name, state)
           /\ init_level' =
                [init_level EXCEPT ![tank_name] = ScaleLevel(init_level[tank_name], level)]
           /\ n_applied' = [n_applied EXCEPT ![tank_name] = @ + 1]
    /\ random_number' = NoDraw
    /\ IF loop_i < Len(tank_name_list)
       THEN pc' = pc /\ loop_i' = loop_i + 1
       ELSE pc' = NextCell(pc) /\ loop_i' = 1
    /\ UNCHANGED <<first_run, pga_value, original_tank_levels, tanks_pga, PumpVars, PipeInputs,
                   PipeVars, SimVars>>

\* faulty variant: a level falling 0.1 per state instead of the table
PumpOperationalLevelMutLinear(state) ==
    CASE state = "None" -> 10
      [] state = "Minor" -> 9
      [] state = "Moderate" -> 8
      [] state = "Extensive" -> 7
      [] state = "Complete" -> 6

\* pump_operational_levels.get(damage_state, 1.0)
PumpOperationalLevel(state) == Get(pump_operational_levels, state, 10)

\* pump loop, up to random.uniform(0, 1) inside determine_pump_damage_state
PumpDraw ==
    /\ pc = "pumps"
    /\ random_number = NoDraw
    /\ pga_value' = Get(pumps_pga, pump_name_list[loop_i], 0)
    /\ \E u \in UGrid : random_number' = u
    /\ UNCHANGED <<first_run, pc, loop_i, damage_state, TankVars, PumpVars, PipeInputs,
                   PipeVars, SimVars, n_applied>>

\* pump loop, from the draw to the end of the iteration; base_speed is not written
PumpApply ==
    /\ pc = "pumps"
    /\ random_number # NoDraw
    /\ LET pump_name == pump_name_list[loop_i]
           state == determine_pump_damage_state(pga_value, random_number)
           level == PumpOperationalLevel(state)
       IN  /\ damage_state' = state
           /\ pump_damage_states' = Put(pump_damage_states, pump_name, state)
           /\ pump_performance' = Put(pump_performance, pump_name, level)
           /\ n_applied' = [n_applied EXCEPT ![pump_name] = @ + 1]
    /\ random_number' = NoDraw
    /\ IF loop_i < Len(pump_name_list)
       THEN pc' = pc /\ loop_i' = loop_i + 1
       ELSE pc' = NextCell(pc) /\ loop_i' = 1
    /\ UNCHANGED <<first_run, pga_value, pumps_pga, base_speed, TankVars, PipeInputs,
                   PipeVars, SimVars>>

\* num_damages comprehension: one poisson.rvs per item of RR
PoissonDraw ==
    /\ pc = "poisson"
    /\ LET pipe == RRIndex[loop_i]
       IN  /\ IlocInRange(link_length, pipe)
           /\ \E n \in PoissonSupport(Mu(pipe)) :
                num_damages' = Put(num_damages, pipe, n)
    /\ IF loop_i < Len(RRIndex)
       THEN pc' = pc /\ loop_i' = loop_i + 1
       ELSE pc' = NextCell(pc) /\ loop_i' = 1
    /\ UNCHANGED <<first_run, pga_value, random_number, damage_state, TankVars, PumpVars,
                   PipeInputs, leaks_breaks, orifice_areas, np_uniform, pipe_failed,
                   n_splits, leak_area, pipe_visits, SimVars, n_applied>>

\* link_length.iloc[int(pipe)] past the end of the series: IndexError ends the run
PoissonIndexError ==
    /\ pc = "poisson"
    /\ ~IlocInRange(link_length, RRIndex[loop_i])
    /\ pc' = "error"
    /\ UNCHANGED <<first_run, loop_i, pga_value, random_number, damage_state, TankVars,
                   PumpVars, PipeInputs, PipeVars, SimVars, n_applied>>

\* leaks_breaks, diameters, areas and orifice_areas comprehensions
DerivePipeDamage ==
    /\ pc = "derive"
    /\ leaks_breaks' = [p \in DOMAIN num_damages |-> LeaksBreaks(num_damages[p])]
    /\ orifice_areas' =
         [p \in DOMAIN num_damages |->
            OrificeArea(LeaksBreaks(num_damages[p])[1],
                        LeaksBreaks(num_damages[p])[2], Area(p))]
    /\ pc' = NextCell(pc)
    /\ loop_i' = 1
    /\ UNCHANGED <<first_run, pga_value, random_number, damage_state, TankVars, PumpVars,
                   PipeInputs, num_damages, np_uniform, pipe_failed, n_splits,
                   leak_area, pipe_visits, SimVars, n_applied>>

\* the keys of orifice_areas in insertion order
OrificeKeys == RRIndex

\* leak loop, up to np.random.uniform()
PipeDraw ==
    /\ pc = "leaks"
    /\ np_uniform = NoDraw
    /\ \E u \in NpUGrid : np_uniform' = u
    /\ UNCHANGED <<first_run, pc, loop_i, pga_value, random_number, damage_state, TankVars,
                   PumpVars, PipeInputs, num_damages, leaks_breaks, orifice_areas,
                   pipe_failed, n_splits, leak_area, pipe_visits, SimVars, n_applied>>

\* leak loop, from the comparison with pf to the end of the iteration
PipeBranch ==
    /\ pc = "leaks"
    /\ np_uniform # NoDraw
    /\ LET pipe == OrificeKeys[loop_i]
           fails == PipeFails(pipe, np_uniform)
           target == SplitPipeName(pipe)
       IN  /\ pipe_failed' = Put(pipe_failed, pipe, fails)
           /\ pipe_visits' = [pipe_visits EXCEPT ![pipe] = @ + 1]
           /\ IF fails
              THEN /\ n_splits' = [n_splits EXCEPT ![target] = @ + 1]
                   /\ leak_area' = Put(leak_area, pipe, orifice_areas[pipe])
              ELSE UNCHANGED <<n_splits, leak_area>>
    /\ np_uniform' = NoDraw
    /\ IF loop_i < Len(OrificeKeys)
       THEN pc' = pc /\ loop_i' = loop_i + 1
       ELSE pc' = NextCell(pc) /\ loop_i' = 1
    /\ UNCHANGED <<first_run, pga_value, random_number, damage_state, TankVars, PumpVars,
                   PipeInputs, num_damages, leaks_breaks, orifice_areas, SimVars,
                   n_applied>>

\* sim = wntr.sim.WNTRSimulator(wn); results = sim.run_sim()
RunSim ==
    /\ pc = "sim"
    /\ sim_runs' = sim_runs + 1
    /\ \E r \in SimResults : results' = r
    /\ pc' = NextCell(pc)
    /\ loop_i' = 1
    /\ UNCHANGED <<first_run, pga_value, random_number, damage_state, TankVars, PumpVars,
                   PipeInputs, PipeVars, serviceability, n_applied>>

\* serviceability[node_name] = new_tanks_level / original_tank_levels[node_name]
TankServiceability(node) ==
    Put(serviceability, node,
        Divide(results.head[node] - TankElevation[node], original_tank_levels[node]))

\* faulty variant: the ratio clamped to 1
JunctionServiceabilityMutClamp(node) ==
    IF ExpectedDemand(node) = 0 THEN serviceability
    ELSE Put(serviceability, node,
             [kind |-> "finite",
              value |-> Min(1000, Divide(Get(results.demand, node, 0),
                                         ExpectedDemand(node)).value)])

\* junction branch: skipped when required_demand == 0
JunctionServiceability(node) ==
    IF ExpectedDemand(node) = 0 THEN serviceability
    ELSE Put(serviceability, node,
             Divide(Get(results.demand, node, 0), ExpectedDemand(node)))

\* one iteration of the loop over wn.node_name_list
ServiceNode ==
    /\ pc = "serviceability"
    /\ LET node_name == NodeNameList[loop_i]
       IN  serviceability' =
             IF node_name \in Range(tank_name_list) THEN TankServiceability(node_name)
             ELSE IF IsJunction(node_name) THEN JunctionServiceability(node_name)
             ELSE serviceability
    /\ IF loop_i < Len(NodeNameList)
       THEN pc' = pc /\ loop_i' = loop_i + 1
       ELSE pc' = NextCell(pc) /\ loop_i' = 1
    /\ UNCHANGED <<first_run, pga_value, random_number, damage_state, TankVars, PumpVars,
                   PipeInputs, PipeVars, sim_runs, results, n_applied>>

\* faulty variant: the level weighted by the simulated share of demand met
PumpServiceabilityMutSolver(pump_name) ==
    [kind |-> "finite",
     value |-> (100 * pump_performance[pump_name]
                  * Min(results.demand["J1"], ExpectedDemand("J1")))
               \div ExpectedDemand("J1")]

\* the value stored for a pump: pump_performance[pump_name]
PumpServiceability(pump_name) ==
    [kind |-> "finite", value |-> 100 * pump_performance[pump_name]]

\* serviceability[pump_name] = pump_performance[pump_name]
ServicePump ==
    /\ pc = "pump_serviceability"
    /\ LET pump_name == pump_name_list[loop_i]
       IN  serviceability' =
             Put(serviceability, pump_name, PumpServiceability(pump_name))
    /\ IF loop_i < Len(pump_name_list)
       THEN pc' = pc /\ loop_i' = loop_i + 1
       ELSE pc' = NextCell(pc) /\ loop_i' = 1
    /\ UNCHANGED <<first_run, pga_value, random_number, damage_state, TankVars, PumpVars,
                   PipeInputs, PipeVars, sim_runs, results, n_applied>>

Next ==
    \/ CaptureOriginalLevels
    \/ TankDraw
    \/ TankApply
    \/ PumpDraw
    \/ PumpApply
    \/ PoissonDraw
    \/ PoissonIndexError
    \/ DerivePipeDamage
    \/ PipeDraw
    \/ PipeBranch
    \/ RunSim
    \/ ServiceNode
    \/ ServicePump

Spec == Init /\ [][Next]_vars

\* one input per tank and pump table, an in-range and an out-of-range pipe order
InitTwoRuns ==
    /\ Init
    /\ pipe_name_list \in {<<0, 1>>, <<1, 2>>}
    /\ init_level = [T1 |-> 50, T2 |-> 30]
    /\ tanks_pga = <<>>
    /\ pumps_pga = [P1 |-> 60]

\* the notebook run again from a fresh kernel on the same input files: the
\* network is reloaded, every global is gone, nothing seeds random or np.random
Restart ==
    /\ pc = "done"
    /\ ~first_run.done
    /\ first_run' = [done |-> TRUE,
                     tank_damage_states |-> tank_damage_states,
                     pump_damage_states |-> pump_damage_states,
                     pipe_failed |-> pipe_failed,
                     orifice_areas |-> orifice_areas]
    /\ pc' = "capture"
    /\ init_level' = original_tank_levels
    /\ original_tank_levels' = EmptyDict
    /\ loop_i' = 1
    /\ pga_value' = 0
    /\ random_number' = NoDraw
    /\ damage_state' = Unset
    /\ tank_damage_states' = EmptyDict
    /\ pump_damage_states' = EmptyDict
    /\ pump_performance' = EmptyDict
    /\ num_damages' = EmptyDict
    /\ leaks_breaks' = EmptyDict
    /\ orifice_areas' = EmptyDict
    /\ np_uniform' = NoDraw
    /\ pipe_failed' = EmptyDict
    /\ n_splits' = [p \in Range(pipe_name_list) |-> 0]
    /\ leak_area' = EmptyDict
    /\ n_applied' = [a \in Tanks \cup Pumps |-> 0]
    /\ pipe_visits' = [p \in Range(pipe_name_list) |-> 0]
    /\ sim_runs' = 0
    /\ results' = NoResults
    /\ serviceability' = EmptyDict
    /\ UNCHANGED <<tanks_pga, pumps_pga, base_speed, PipeInputs>>

NextTwoRuns ==
    \/ Next
    \/ Restart

SpecTwoRuns == InitTwoRuns /\ [][NextTwoRuns]_vars

---------------------------------------------------------------------------
(* Properties *)

\* the fragility table of the asset kind whose loop is running
ParamsAt(cell) ==
    IF cell = "tanks" THEN tanks_damage_state_params ELSE pump_damage_state_params

\* C1: at an intensity <= 0 (the default PGA 0 of an asset without an
\* attenuation value included) the sampled damage state of every tank and of
\* every pump is "None".
C1_NonPositiveIntensityGivesNone ==
    /\ \A t \in DOMAIN tank_damage_states :
         Get(tanks_pga, t, 0) <= 0 => tank_damage_states[t] = "None"
    /\ \A p \in DOMAIN pump_damage_states :
         Get(pumps_pga, p, 0) <= 0 => pump_damage_states[p] = "None"

SeverityOrder == <<"Minor", "Moderate", "Extensive", "Complete">>

\* exceedance(state) = 1 - LognormalCDF(intensity; median, beta)
Exceedance(params, i, x) ==
    1000 - LognormCdf(x, params[SeverityOrder[i]][1], params[SeverityOrder[i]][2])

\* mass of the i-th state: exceedance(state) - exceedance(previous), baseline 0
Mass(params, i, x) ==
    Exceedance(params, i, x) - (IF i = 1 THEN 0 ELSE Exceedance(params, i - 1, x))

RECURSIVE CumulativeMass(_, _, _)
CumulativeMass(params, i, x) ==
    IF i = 0 THEN 0 ELSE CumulativeMass(params, i - 1, x) + Mass(params, i, x)

\* the first state in severity order whose cumulative mass is >= u, else "None"
FirstReaching(params, x, u) ==
    LET reach == {i \in 1..Len(SeverityOrder) : CumulativeMass(params, i, x) >= u}
    IN  IF reach = {} THEN "None"
        ELSE SeverityOrder[CHOOSE i \in reach : \A j \in reach : i <= j]

\* C2: the sampler walks Minor, Moderate, Extensive, Complete, accumulates the
\* masses exceedance(state) - exceedance(previous state) from a baseline of 0,
\* and returns the first state whose cumulative mass is >= the draw u, or
\* "None" when no cumulative mass reaches u.
C2_WalkReturnsFirstReaching ==
    [][(pc \in {"tanks", "pumps"} /\ random_number # NoDraw)
        => damage_state' = FirstReaching(ParamsAt(pc), pga_value, random_number)]_vars

\* a tank sampled "Extensive" inside the walk and a pump that fell through to "None"
C2_Witness ==
    /\ "T1" \in DOMAIN tanks_pga
    /\ Get(tank_damage_states, "T1", "") = "Extensive"
    /\ "P1" \in DOMAIN pumps_pga
    /\ Get(pump_damage_states, "P1", "") = "None"

\* a step of the leak loop that compares the failure draw with Pf
FailureBranchStep == pc = "leaks" /\ np_uniform # NoDraw

\* C3: a pipe is split and gets a leak node exactly when its uniform failure
\* draw is strictly below Pf, whatever damage count was sampled for it; no
\* other step splits a pipe or adds a leak.
C3_SplitIffDrawBelowPf ==
    [][IF FailureBranchStep
       THEN \A p \in Range(pipe_name_list) :
              LET below == p = OrificeKeys[loop_i] /\ np_uniform < Pf(p)
              IN  /\ n_splits'[p] = n_splits[p] + (IF below THEN 1 ELSE 0)
                  /\ (p \in DOMAIN leak_area') <=> (p \in DOMAIN leak_area \/ below)
       ELSE UNCHANGED <<n_splits, leak_area>>]_vars

\* a pipe with a nonzero damage count that did not fail and has no leak, and
\* a failed pipe that was split, at the end of the leak loop
C3_Witness ==
    /\ pc = "sim"
    /\ \E p \in DOMAIN pipe_failed :
         /\ ~pipe_failed[p]
         /\ num_damages[p] > 0
         /\ n_splits[p] = 0
         /\ p \notin DOMAIN leak_area

\* C4: the Poisson damage count of a pipe is drawn after its uniform failure
\* draw and only if that draw marked the pipe failed.
C4_PoissonOnlyAfterFailure ==
    \A p \in DOMAIN num_damages : p \in DOMAIN pipe_failed /\ pipe_failed[p]

\* C5: the orifice area of every pipe is at most the pipe's full
\* cross-sectional area and is never negative.
C5_OrificeAreaWithinBore ==
    /\ \A p \in DOMAIN orifice_areas :
         orifice_areas[p] >= 0 /\ orifice_areas[p] <= 100 * Area(p)
    /\ \A p \in DOMAIN leak_area :
         leak_area[p] >= 0 /\ leak_area[p] <= 100 * Area(p)

\* a pipe whose uncapped area exceeds its bore and is capped at it
C5_Witness ==
    \E p \in DOMAIN orifice_areas :
        /\ 3 * leaks_breaks[p][1] + 20 * leaks_breaks[p][2] > 100
        /\ orifice_areas[p] = 100 * Area(p)
        /\ Area(p) > 0

\* C6: leaks = floor(0.85 * count) and breaks = floor(0.15 * count), both are
\* non-negative and leaks + breaks <= count.
C6_LeakBreakSplit ==
    \A p \in DOMAIN leaks_breaks :
        LET count == num_damages[p]
            leaks == leaks_breaks[p][1]
            breaks == leaks_breaks[p][2]
        IN  /\ 100 * leaks <= 85 * count /\ 85 * count < 100 * (leaks + 1)
            /\ 100 * breaks <= 15 * count /\ 15 * count < 100 * (breaks + 1)
            /\ leaks >= 0 /\ breaks >= 0
            /\ leaks + breaks <= count

\* a count that truncation splits with a remainder: 7 -> 5 leaks and 1 break
C6_Witness ==
    \E p \in DOMAIN leaks_breaks :
        /\ num_damages[p] = 7
        /\ leaks_breaks[p] = <<5, 1>>

\* C7: damage is applied to every tank, pump and pipe exactly once and before
\* the solver is invoked, the solver is invoked at most once and before any
\* serviceability value exists, and a finished run has invoked it exactly once.
C7_PhasesOrdered ==
    /\ sim_runs <= 1
    /\ \A a \in Tanks \cup Pumps : n_applied[a] <= 1
    /\ \A p \in Range(pipe_name_list) : pipe_visits[p] <= 1
    /\ sim_runs = 1 =>
         /\ \A a \in Tanks \cup Pumps : n_applied[a] = 1
         /\ \A p \in Range(pipe_name_list) : pipe_visits[p] = 1
         /\ random_number = NoDraw /\ np_uniform = NoDraw
    /\ serviceability # EmptyDict => sim_runs = 1 /\ results \in SimResults
    /\ pc = "done" => sim_runs = 1

\* a finished run with a leak in the network and every node evaluated
C7_Witness ==
    /\ pc = "done"
    /\ sim_runs = 1
    /\ leak_area # EmptyDict
    /\ "P1" \in DOMAIN serviceability

\* C8: every pipe is split at most once.
C8_SplitAtMostOnce ==
    \A p \in Range(pipe_name_list) : n_splits[p] <= 1

\* a run past the leak loop in which a pipe was split
C8_Witness ==
    /\ pc \in {"sim", "serviceability", "pump_serviceability", "done"}
    /\ \E p \in Range(pipe_name_list) : n_splits[p] = 1 /\ p \in DOMAIN leak_area

\* the operational level of a damage state, in 1/10
OperationalLevelOf(state) ==
    CASE state = "None" -> 10
      [] state = "Minor" -> 9
      [] state = "Moderate" -> 8
      [] state = "Extensive" -> 6
      [] state = "Complete" -> 0

\* C9: a tank's init_level is its pre-damage level times the operational
\* level of its sampled damage state once it is sampled and the pre-damage
\* level before; the level kept in original_tank_levels is the pre-damage
\* one; every tank is scaled before the solver runs, and once.
C9_TankLevelScaledOnce ==
    pc # "capture" =>
      /\ \A t \in Tanks :
           IF t \in DOMAIN tank_damage_states
           THEN 10 * init_level[t] =
                  original_tank_levels[t] * OperationalLevelOf(tank_damage_states[t])
           ELSE init_level[t] = original_tank_levels[t]
      /\ \A t \in Tanks : n_applied[t] <= 1
      /\ sim_runs >= 1 => \A t \in Tanks : n_applied[t] = 1

\* a tank of level 50 sampled "Extensive" holds 30 when the run is done
C9_Witness ==
    /\ pc = "done"
    /\ original_tank_levels["T1"] = 50
    /\ tank_damage_states["T1"] = "Extensive"
    /\ init_level["T1"] = 30

\* C10: a tank whose original level is 0 has no serviceability entry, and no
\* tank entry is the result of a division by zero.
C10_NoZeroDivision ==
    \A t \in Tanks :
        t \in DOMAIN serviceability =>
            original_tank_levels[t] # 0 /\ serviceability[t].kind = "finite"

\* the junctions of the network once the serviceability loop has run
JunctionsEvaluated ==
    IF pc \in {"pump_serviceability", "done"}
    THEN {n \in Range(NodeNameList) : n \notin Tanks}
    ELSE {}

\* C11: a junction whose mean required demand is 0 has no serviceability
\* entry; every other junction has the entry mean satisfied demand / mean
\* required demand, not clamped to [0, 1].
C11_JunctionRatioOrSkipped ==
    \A j \in JunctionsEvaluated :
        IF ExpectedDemand(j) = 0
        THEN j \notin DOMAIN serviceability
        ELSE /\ j \in DOMAIN serviceability
             /\ serviceability[j].kind = "finite"
             /\ serviceability[j].value * ExpectedDemand(j) <= 1000 * results.demand[j]
             /\ 1000 * results.demand[j] < (serviceability[j].value + 1) * ExpectedDemand(j)

\* a finished run with a skipped zero-demand junction, a skipped leak node
\* and a junction served above its required demand
C11_Witness ==
    /\ pc = "done"
    /\ "J2" \notin DOMAIN serviceability
    /\ \E p \in DOMAIN leak_area : LeakNodeName[p] \notin DOMAIN serviceability
    /\ serviceability["J1"].value = 1200

OwnLength(pipe) == (LengthFt[pipe] * 3048) \div 10000

\* C15: for every pipe whose Poisson mean or failure probability has been
\* computed, the length used is that pipe's own length converted to m.
C15_OwnLengthUsed ==
    \A p \in DOMAIN num_damages \cup DOMAIN pipe_failed :
        /\ Iloc(link_length, p) = OwnLength(p)
        /\ Mu(p) = ((RR(p) \div 1000) * OwnLength(p)) \div 1000

\* C14: two runs of the pipeline on identical inputs produce identical damage
\* states for every tank and pump, identical failure flags for every pipe and
\* identical orifice areas, all draws coming from one seeded source.  The
\* notebook holds no seed call and draws from random (tanks, pumps) and from
\* np.random / scipy (pipes), so the second run's draws are free.
C14_RunsAgree ==
    (first_run.done /\ pc = "done") =>
        /\ tank_damage_states = first_run.tank_damage_states
        /\ pump_damage_states = first_run.pump_damage_states
        /\ pipe_failed = first_run.pipe_failed
        /\ orifice_areas = first_run.orifice_areas

====
